---- MODULE Spec2Model ----
(***************************************************************************)
(* dumpdiff.py: the structural differ of two json_dump documents (left:    *)
(* rust minidump-stackwalk, right: breakpad stackwalker), its exception    *)
(* tables, its value comparators and the fixed sequence of calls of main.  *)
(*                                                                         *)
(* Strings.  A Python string is modelled by the sequence of its tokens: a  *)
(* token is one decimal digit, the character ".", or a run of other        *)
(* characters.  Mapping keys and paths use maximal runs ("offset" is one   *)
(* token), string values use runs of one character, so that int(s, 16)     *)
(* reads them character by character.                                      *)
(*                                                                         *)
(* Values.  A parsed JSON value is a tagged record: null, bool, num, str,  *)
(* dict (a function from keys to values) or list (a sequence of values).   *)
(***************************************************************************)
EXTENDS Integers, Sequences, FiniteSets, TLC

VARIABLES
    file1,      \* what json.load reads from RUST_FILE
    file2,      \* what json.load reads from BREAKPAD_FILE
    pc,         \* the position of the program: the next call of main
    left,       \* the left document (main), or the left argument of a call
    right,      \* the right document (main), or the right argument of a call
    namespace,  \* the namespace argument of the last (or the only) call
    recurse,    \* the recurse argument of the last (or the only) call
    out,        \* the divergence lines printed so far, in order
    calls,      \* the calls of diff_dicts and diff_lists made so far, in order
    err         \* "" or the name of the uncaught exception that ended the run

vars == <<file1, file2, pc, left, right, namespace, recurse, out, calls, err>>

----------------------------------------------------------------------------
(* Bounds of the model *)

\* the longest sequence the model draws for a list value
MaxLen == 2

----------------------------------------------------------------------------
(* Strings as token sequences *)

Digits == {"0", "1", "2", "3", "4", "5", "6", "7", "8", "9"}

DOT == "."

\* str.join with "." of two token sequences: f"{namespace}.{key}"
Dotted(a, b) == a \o <<DOT>> \o b

\* the decimal digits of a natural number: f"{i}"
RECURSIVE ToDigits(_)
ToDigits(n) ==
    LET d == <<"0", "1", "2", "3", "4", "5", "6", "7", "8", "9">>[(n % 10) + 1]
    IN  IF n < 10 THEN <<d>> ELSE ToDigits(n \div 10) \o <<d>>

\* re.sub(r"\d+", "N", key) on a token sequence: every maximal run of digit
\* tokens becomes the one character N, which joins the runs of other
\* characters on either side of it
RECURSIVE SubDigits(_, _)
SubDigits(s, acc) ==
    IF s = <<>> THEN acc
    ELSE LET c    == Head(s)
             prev == IF acc = <<>> THEN DOT ELSE acc[Len(acc)]
             piece == IF c \in Digits THEN "N" ELSE c
             skip == c \in Digits /\ Len(s) > 1 /\ s[2] \in Digits
         IN  IF skip THEN SubDigits(Tail(s), acc)
             ELSE IF piece = DOT \/ prev = DOT
                  THEN SubDigits(Tail(s), Append(acc, piece))
                  ELSE SubDigits(Tail(s),
                                 SubSeq(acc, 1, Len(acc) - 1) \o <<prev \o piece>>)

Normalize(key) == SubDigits(key, <<>>)

\* namespace.split(".")[-1]
RECURSIVE LastSegment(_)
LastSegment(s) ==
    IF \A i \in 1..Len(s) : s[i] # DOT THEN s
    ELSE LET i == CHOOSE j \in 1..Len(s) : s[j] = DOT
         IN  LastSegment(SubSeq(s, i + 1, Len(s)))

----------------------------------------------------------------------------
(* JSON values *)

Null     == [t |-> "null"]
Bool(b)  == [t |-> "bool", b |-> b]
Num(n)   == [t |-> "num", n |-> n]
Str(s)   == [t |-> "str", s |-> s]
Dict(f)  == [t |-> "dict", d |-> f]
List(l)  == [t |-> "list", l |-> l]

EmptyFn   == [k \in {} |-> Null]
EmptyDict == Dict(EmptyFn)
EmptyList == List(<<>>)

IsNone(v)  == v.t = "null"
IsFalse(v) == v.t = "bool" /\ ~v.b
IsDict(v)  == v.t = "dict"
IsList(v)  == v.t = "list"
IsScalar(v) == v.t \in {"null", "bool", "num", "str"}

\* key in d
HasKey(d, key) == key \in DOMAIN d.d

\* d.get(key, default)
Get(d, key, default) == IF HasKey(d, key) THEN d.d[key] ELSE default

----------------------------------------------------------------------------
(* Exception tables and the Path Classifier *)

\* a dotted path written by its segments
RECURSIVE Path(_)
Path(segs) ==
    IF Len(segs) = 1 THEN <<segs[1]>>
    ELSE Dotted(<<segs[1]>>, Path(Tail(segs)))

IGNORE_KEYS == {
    Path(<<"stackwalk_version">>),
    Path(<<"tiny_block_size">>),
    Path(<<"largest_free_vm_block">>),
    Path(<<"write_combine_size">>),
    Path(<<"crashing_thread", "total_frames">>),
    Path(<<"modules", "N", "symbol_disk_cache_hit">>),
    Path(<<"modules", "N", "symbol_fetch_time">>),
    Path(<<"modules", "N", "missing_symbols">>),
    Path(<<"threads", "N", "frames", "N", "missing_symbols">>),
    Path(<<"crashing_thread", "frames", "N", "missing_symbols">>) }

NULL_OK == {
    Path(<<"mac_crash_info">>),
    Path(<<"lsb_release">>),
    Path(<<"crash_info", "assertion">>),
    Path(<<"system_info", "cpu_microcode_version">>),
    Path(<<"crashing_thread", "last_error_value">>),
    Path(<<"crashing_thread", "thread_name">>),
    Path(<<"crashing_thread", "frames", "N", "line">>),
    Path(<<"crashing_thread", "frames", "N", "file">>),
    Path(<<"crashing_thread", "frames", "N", "module">>),
    Path(<<"crashing_thread", "frames", "N", "module_offset">>),
    Path(<<"crashing_thread", "frames", "N", "function_offset">>),
    Path(<<"crashing_thread", "frames", "N", "function">>),
    Path(<<"threads", "N", "last_error_value">>),
    Path(<<"threads", "N", "thread_name">>),
    Path(<<"threads", "N", "frames", "N", "file">>),
    Path(<<"threads", "N", "frames", "N", "function">>),
    Path(<<"threads", "N", "frames", "N", "function_offset">>),
    Path(<<"threads", "N", "frames", "N", "line">>),
    Path(<<"threads", "N", "frames", "N", "module">>),
    Path(<<"threads", "N", "frames", "N", "module_offset">>),
    Path(<<"modules", "N", "cert_subject">>),
    Path(<<"modules", "N", "symbol_url">>),
    Path(<<"unloaded_modules", "N", "cert_subject">>) }

FALSE_OK == {
    Path(<<"modules", "N", "loaded_symbols">>),
    Path(<<"modules", "N", "corrupt_symbols">>) }

\* if namespace: key = f"{namespace}.{key}"
Qualified(ns, key) == IF ns # <<>> THEN Dotted(ns, key) ELSE key

\* is_ignore_key without the re.sub line: the indices are not collapsed
is_ignore_key_raw(ns, key) == Qualified(ns, key) \in IGNORE_KEYS

is_ignore_key(ns, key) == Normalize(Qualified(ns, key)) \in IGNORE_KEYS

is_null_ok(ns, key) == Normalize(Qualified(ns, key)) \in NULL_OK

is_false_ok(ns, key) == Normalize(Qualified(ns, key)) \in FALSE_OK

----------------------------------------------------------------------------
(* Value Comparator *)

\* left == right for two scalars: bool is a subclass of int (True == 1)
PyInt(v) == IF v.t = "bool" THEN (IF v.b THEN 1 ELSE 0) ELSE v.n

PyEq(a, b) ==
    IF a.t \in {"bool", "num"} /\ b.t \in {"bool", "num"}
    THEN PyInt(a) = PyInt(b)
    ELSE a = b

\* the value of one character as a base-16 digit, -1 when it is none
HexDigit(c) ==
    CASE c \in Digits -> CHOOSE n \in 0..9 : ToDigits(n) = <<c>>
      [] c \in {"a", "A"} -> 10
      [] c \in {"b", "B"} -> 11
      [] c \in {"c", "C"} -> 12
      [] c \in {"d", "D"} -> 13
      [] c \in {"e", "E"} -> 14
      [] c \in {"f", "F"} -> 15
      [] OTHER -> -1

RECURSIVE StripLeft(_)
StripLeft(s) == IF s # <<>> /\ Head(s) = " " THEN StripLeft(Tail(s)) ELSE s

RECURSIVE StripRight(_)
StripRight(s) ==
    IF s # <<>> /\ s[Len(s)] = " " THEN StripRight(SubSeq(s, 1, Len(s) - 1)) ELSE s

\* the digits of a base-16 literal, left to right: single underscores may
\* separate digits; [ok |-> FALSE] when a character is no digit, an underscore
\* is misplaced or there is no digit at all
RECURSIVE HexDigits(_, _, _)
HexDigits(s, acc, afterDigit) ==
    IF s = <<>> THEN [ok |-> afterDigit, n |-> acc]
    ELSE IF Head(s) = "_"
         THEN IF afterDigit /\ Len(s) > 1 /\ HexDigit(s[2]) >= 0
              THEN HexDigits(Tail(s), acc, FALSE)
              ELSE [ok |-> FALSE, n |-> 0]
         ELSE IF HexDigit(Head(s)) >= 0
              THEN HexDigits(Tail(s), acc * 16 + HexDigit(Head(s)), TRUE)
              ELSE [ok |-> FALSE, n |-> 0]

\* the digits after the sign: an optional 0x or 0X prefix, which an
\* underscore may follow
AfterPrefix(s) ==
    IF Len(s) >= 2 /\ s[1] = "0" /\ s[2] \in {"x", "X"}
    THEN IF Len(s) >= 3 /\ s[3] = "_" THEN SubSeq(s, 4, Len(s))
         ELSE SubSeq(s, 3, Len(s))
    ELSE s

Signed(neg, r) ==
    IF r.ok THEN [ok |-> TRUE, n |-> IF neg THEN 0 - r.n ELSE r.n]
    ELSE [ok |-> FALSE, n |-> 0]

\* the literal without the blanks around it: an optional sign first
ParseSign(s) ==
    IF s # <<>> /\ Head(s) \in {"+", "-"}
    THEN Signed(Head(s) = "-", HexDigits(AfterPrefix(Tail(s)), 0, FALSE))
    ELSE Signed(FALSE, HexDigits(AfterPrefix(s), 0, FALSE))

\* int(x, base=16) of a string: surrounding blanks, an optional sign, an
\* optional prefix, then the digits.  [ok |-> FALSE] stands for ValueError
ParseHex(str) == ParseSign(StripRight(StripLeft(str)))

\* the result of a comparator: the value it returns, or the exception it raises
Returns(b) == [exc |-> "", val |-> b]
Raises(e)  == [exc |-> e, val |-> FALSE]

Parsed(r) == IF r.ok THEN [exc |-> "", n |-> r.n] ELSE [exc |-> "ValueError", n |-> 0]

\* int(x, base=16): TypeError for a value that is no string, ValueError for a
\* string that is no base-16 literal
IntBase16(v) ==
    IF v.t # "str" THEN [exc |-> "TypeError", n |-> 0] ELSE Parsed(ParseHex(v.s))

\* the two try blocks of compare_hex, left first: TypeError is caught and
\* gives False, any other exception leaves the function
CompareInts(left_int, right_int) ==
    IF left_int.exc = "TypeError" THEN Returns(FALSE)
    ELSE IF left_int.exc # "" THEN Raises(left_int.exc)
    ELSE IF right_int.exc = "TypeError" THEN Returns(FALSE)
    ELSE IF right_int.exc # "" THEN Raises(right_int.exc)
    ELSE Returns(left_int.n = right_int.n)

compare_hex(key, l, r) ==
    IF IsNone(l) \/ IsNone(r) THEN Returns(l = r)
    ELSE CompareInts(IntBase16(l), IntBase16(r))

compare_misc(key, l, r) == Returns(PyEq(l, r))

\* the keys of KEY_COMPARE, all mapped to compare_hex
KEY_COMPARE == {<<"module_offset">>, <<"offset">>, <<"function_offset">>}

\* KEY_COMPARE.get(key, compare_misc)(key, left_val, right_val)
Comparator(key, l, r) ==
    IF key \in KEY_COMPARE THEN compare_hex(key, l, r) ELSE compare_misc(key, l, r)

----------------------------------------------------------------------------
(* Report Emitter *)

\* the renderings main's callers hand to print_line: json.dumps(value)
\* (fix_value), str(value) (an f-string) or the empty string
Json(v)  == [fmt |-> "json", v |-> v]
PyStr(v) == [fmt |-> "str", v |-> v]
Blank    == [fmt |-> "empty"]

\* one printed line: the path, the two renderings and the indicator; the cut
\* of a rendering at TRIM characters and the column widths are left to the
\* renderings, which the model keeps whole
print_line(key, leftvalue, indicator, rightvalue) ==
    [key |-> key, left |-> leftvalue, ind |-> indicator, right |-> rightvalue]

----------------------------------------------------------------------------
(* Structural Differ *)

\* What a call does: the lines it prints, in order, the calls of diff_dicts
\* and diff_lists it makes (itself first), in order, and the exception that
\* ends it ("" when it returns).  A call has a set of outcomes: the order in
\* which a set of keys is visited is not fixed.
Ok(lines)   == [out |-> lines, calls |-> <<>>, exc |-> ""]
Fail(e)     == [out |-> <<>>, calls |-> <<>>, exc |-> e]

\* statement A, then statement B unless A raised
Then(A, B) ==
    {IF a.exc # "" THEN a
     ELSE [out |-> a.out \o b.out, calls |-> a.calls \o b.calls, exc |-> b.exc] :
        a \in A, b \in B}

\* the entry of a call, then its body
Enter(fn, ns, rec, Body) ==
    Then({[out |-> <<>>, calls |-> <<[fn |-> fn, ns |-> ns, recurse |-> rec]>>,
           exc |-> ""]}, Body)

\* a differ that never descends
DescendNever(rec) == FALSE

\* "if recurse:" of diff_dicts and diff_lists
Descend(rec) == rec

\* the recurse argument of every nested call: recurse=True
NestedRecurse == TRUE

\* every order of the elements of a set
RECURSIVE Orders(_)
Orders(S) ==
    IF S = {} THEN {<<>>}
    ELSE UNION {{<<x>> \o o : o \in Orders(S \ {x})} : x \in S}

\* iter(x) as zip_longest sees it: the elements of a list, the characters of
\* a string, the keys of a dict (in the order of the dict); {} stands for
\* TypeError (null, a bool and a number are not iterable)
Iterate(v) ==
    CASE v.t = "list" -> {v.l}
      [] v.t = "str"  -> {[i \in 1..Len(v.s) |-> Str(<<v.s[i]>>)]}
      [] v.t = "dict" -> {[i \in 1..Len(o) |-> Str(o[i])] : o \in Orders(DOMAIN v.d)}
      [] OTHER -> {}

\* nkey of diff_dicts
NKey(ns, key) == IF ns # <<>> THEN Dotted(ns, key) ELSE key

\* f"{namespace}.{i}" of diff_lists, i counted from 0
IKey(ns, i) == Dotted(ns, ToDigits(i))

\* "if not comparator(...): print_line(..., "|", ...)"
Compared(c, path, left_val, right_val) ==
    IF c.exc # "" THEN {Fail(c.exc)}
    ELSE IF ~c.val
    THEN {Ok(<<print_line(path, Json(left_val), "|", Json(right_val))>>)}
    ELSE {Ok(<<>>)}

RECURSIVE diff_dicts(_, _, _, _)
RECURSIVE diff_lists(_, _, _, _)

\* the body of the loop of diff_lists for position i (from 0)
ListStep(ns, left_val, right_val, rec, i) ==
    IF ~IsNone(left_val) /\ IsNone(right_val)
    THEN {Ok(<<print_line(IKey(ns, i), PyStr(left_val), ">", Blank)>>)}
    ELSE IF IsNone(left_val) /\ ~IsNone(right_val)
    THEN {Ok(<<print_line(IKey(ns, i), Blank, "<", PyStr(right_val))>>)}
    ELSE IF IsDict(left_val) \/ IsDict(right_val)
    THEN IF Descend(rec)
         THEN diff_dicts(IKey(ns, i), left_val, right_val, NestedRecurse)
         ELSE {Ok(<<>>)}
    ELSE IF IsList(left_val) \/ IsList(right_val)
    THEN IF Descend(rec)
         THEN diff_lists(IKey(ns, i), left_val, right_val, NestedRecurse)
         ELSE {Ok(<<>>)}
    ELSE Compared(compare_misc(LastSegment(ns), left_val, right_val),
                  IKey(ns, i), left_val, right_val)

\* itertools.zip_longest(left, right, fillvalue=None)[i]
ZipLongest(l, r, i) ==
    <<IF i <= Len(l) THEN l[i] ELSE Null, IF i <= Len(r) THEN r[i] ELSE Null>>

\* the loop of diff_lists from position i (from 1) on
RECURSIVE ListLoop(_, _, _, _, _)
ListLoop(ns, l, r, rec, i) ==
    IF i > Len(l) /\ i > Len(r) THEN {Ok(<<>>)}
    ELSE Then(ListStep(ns, ZipLongest(l, r, i)[1], ZipLongest(l, r, i)[2], rec, i - 1),
              ListLoop(ns, l, r, rec, i + 1))

diff_lists(ns, l, r, rec) ==
    Enter("diff_lists", ns, rec,
          IF Iterate(l) = {} \/ Iterate(r) = {} THEN {Fail("TypeError")}
          ELSE UNION {ListLoop(ns, ls, rs, rec, 1) :
                          ls \in Iterate(l), rs \in Iterate(r)})

\* the else branch of the loop of diff_dicts: the key is on both sides
BothStep(ns, left_val, right_val, l, r, rec, key) ==
    IF IsDict(left_val) \/ IsDict(right_val)
    THEN IF Descend(rec)
         THEN diff_dicts(NKey(ns, key), Get(l, key, EmptyDict),
                         Get(r, key, EmptyDict), NestedRecurse)
         ELSE {Ok(<<>>)}
    ELSE IF IsList(left_val) \/ IsList(right_val)
    THEN IF Descend(rec)
         THEN diff_lists(NKey(ns, key), left_val, right_val, NestedRecurse)
         ELSE {Ok(<<>>)}
    ELSE Compared(Comparator(key, left_val, right_val),
                  NKey(ns, key), left_val, right_val)

\* the body of the loop of diff_dicts for one key
DictStep(ns, l, r, rec, key) ==
    IF is_ignore_key(ns, key) THEN {Ok(<<>>)}
    ELSE IF HasKey(l, key) /\ ~HasKey(r, key)
    THEN IF IsNone(l.d[key]) /\ is_null_ok(ns, key) THEN {Ok(<<>>)}
         ELSE IF IsFalse(l.d[key]) /\ is_false_ok(ns, key) THEN {Ok(<<>>)}
         ELSE {Ok(<<print_line(NKey(ns, key), Json(l.d[key]), ">", Blank)>>)}
    ELSE IF ~HasKey(l, key) /\ HasKey(r, key)
    THEN {Ok(<<print_line(NKey(ns, key), Blank, "<", Json(r.d[key]))>>)}
    ELSE BothStep(ns, l.d[key], r.d[key], l, r, rec, key)

\* the loop of diff_dicts over the keys not visited yet, in any order
RECURSIVE DictLoop(_, _, _, _, _)
DictLoop(ns, l, r, rec, keys) ==
    IF keys = {} THEN {Ok(<<>>)}
    ELSE UNION {Then(DictStep(ns, l, r, rec, k), DictLoop(ns, l, r, rec, keys \ {k})) :
                    k \in keys}

\* left.keys() of a value that is no dict raises AttributeError
diff_dicts(ns, l, r, rec) ==
    Enter("diff_dicts", ns, rec,
          IF ~IsDict(l) \/ ~IsDict(r) THEN {Fail("AttributeError")}
          ELSE DictLoop(ns, l, r, rec, DOMAIN l.d \cup DOMAIN r.d))

----------------------------------------------------------------------------
(* Driver: get_data and main *)

\* get_data after json.load: the json_dump part of a processed crash, or the
\* whole document
get_data(data) ==
    IF HasKey(data, <<"json_dump">>) THEN data.d[<<"json_dump">>] ELSE data

\* the characters the model's string values are made of, in code point order
Ascii == <<" ", "+", "-", "0", "1", "2", "3", "4", "5", "6", "7", "8", "9",
           "A", "B", "C", "D", "E", "F", "X", "_",
           "a", "b", "c", "d", "e", "f", "x", "z">>

Ord(c) == CHOOSE i \in 1..Len(Ascii) : Ascii[i] = c

\* a < b for two strings
RECURSIVE StrLess(_, _)
StrLess(a, b) ==
    IF b = <<>> THEN FALSE
    ELSE IF a = <<>> THEN TRUE
    ELSE IF Head(a) = Head(b) THEN StrLess(Tail(a), Tail(b))
    ELSE Ord(Head(a)) < Ord(Head(b))

\* module_key: module.get("filename", "") + module.get("code_id", "").  A
\* value that is no dict has no get (AttributeError); str + str and
\* number + number add, the other sums the model's documents hold raise
\* TypeError
module_key(module) ==
    IF ~IsDict(module) THEN [exc |-> "AttributeError", key |-> Null]
    ELSE LET f == Get(module, <<"filename">>, Str(<<>>))
             c == Get(module, <<"code_id">>, Str(<<>>))
         IN  IF f.t = "str" /\ c.t = "str"
             THEN [exc |-> "", key |-> Str(f.s \o c.s)]
             ELSE IF f.t \in {"bool", "num"} /\ c.t \in {"bool", "num"}
             THEN [exc |-> "", key |-> Num(PyInt(f) + PyInt(c))]
             ELSE [exc |-> "TypeError", key |-> Null]

\* a < b for two sort keys of one type
KeyLess(a, b) == IF a.t = "str" THEN StrLess(a.s, b.s) ELSE a.n < b.n

\* insertion of the keyed element x into the sorted sequence sorted, after
\* the elements whose key is not greater: the sort is stable
RECURSIVE Insert(_, _)
Insert(sorted, x) ==
    IF sorted = <<>> THEN <<x>>
    ELSE IF KeyLess(x.key, Head(sorted).key)
         THEN <<x>> \o sorted
         ELSE <<Head(sorted)>> \o Insert(Tail(sorted), x)

RECURSIVE StableSort(_, _)
StableSort(rest, sorted) ==
    IF rest = <<>> THEN sorted
    ELSE StableSort(Tail(rest), Insert(sorted, Head(rest)))

\* the sort, given the results of module_key for the elements, in order: the
\* first exception of module_key leaves the sort; two keys of different
\* types do not compare (TypeError)
SortKeyed(v, keyed) ==
    IF \E i \in 1..Len(keyed) : keyed[i].exc # ""
    THEN [exc |-> keyed[CHOOSE i \in 1..Len(keyed) :
                            /\ keyed[i].exc # ""
                            /\ \A j \in 1..(i - 1) : keyed[j].exc = ""].exc,
          val |-> v]
    ELSE IF \E i, j \in 1..Len(keyed) : keyed[i].key.t # keyed[j].key.t
    THEN [exc |-> "TypeError", val |-> v]
    ELSE [exc |-> "",
          val |-> List([i \in 1..Len(keyed) |-> StableSort(keyed, <<>>)[i].elem])]

\* modules.sort(key=module_key): a value that is no list has no sort
\* (AttributeError)
Sort(v) ==
    IF ~IsList(v) THEN [exc |-> "AttributeError", val |-> v]
    ELSE SortKeyed(v, [i \in 1..Len(v.l) |->
                          [exc |-> module_key(v.l[i]).exc,
                           key |-> module_key(v.l[i]).key,
                           elem |-> v.l[i]]])

\* d[key] = v when d holds key: the list that sort changes in place is the
\* list the document holds
Stored(d, key, v) == IF HasKey(d, key) THEN Dict([d.d EXCEPT ![key] = v]) ELSE d

----------------------------------------------------------------------------
(* The documents and the arguments the model draws *)

S10   == Str(<<"1", "0">>)
S0x10 == Str(<<"0", "x", "1", "0">>)
Szz   == Str(<<"z", "z">>)
Sa    == Str(<<"a">>)
Sb    == Str(<<"b">>)

D1(k, v) == Dict(<<k>> :> v)
D2(k1, v1, k2, v2) == Dict(<<k1>> :> v1 @@ <<k2>> :> v2)

\* all sequences over S of length at most n
RECURSIVE SeqsUpTo(_, _)
SeqsUpTo(S, n) ==
    IF n = 0 THEN {<<>>}
    ELSE SeqsUpTo(S, n - 1) \cup
         {Append(q, x) : q \in {p \in SeqsUpTo(S, n - 1) : Len(p) = n - 1}, x \in S}

Frames == {
    D1("offset", S10), D1("offset", S0x10), D1("offset", Szz),
    D1("offset", Num(1)), D1("missing_symbols", Bool(TRUE)), D1("missing_symbols", Bool(FALSE)),
    D1("module_offset", Null), D1("line", S10), D1("line", Num(1)) }

Modules == {
    D1("filename", Sa),
    Dict(<<"filename">> :> Sb @@ <<"loaded_symbols">> :> Bool(FALSE)
         @@ <<"missing_symbols">> :> Bool(TRUE)),
    D1("filename", Sb),
    D1("code_id", Sa) }

\* the documents with one key
Sections ==
    {<<"stackwalk_version", v>> : v \in {S10, S0x10}}
    \cup {<<"lsb_release", v>> : v \in {Null, S10, D1("address", S10)}}
    \cup {<<"offset", v>> : v \in {S10, S0x10, Szz, Num(1)}}
    \cup {<<"crash_info", v>> : v \in {D1("address", S10), D1("address", S0x10),
                                       D1("assertion", Null),
                                       D1("address", D1("line", S10)),
                                       D1("address", D1("line", S0x10))}}
    \cup {<<"crashing_thread", v>> : v \in
            {D1("total_frames", Num(1)), D1("total_frames", S10),
             D1("total_frames", D1("line", S10)),
             D1("total_frames", D1("line", S0x10)),
             D1("thread_name", Null), D1("thread_name", S10),
             D1("offset", List(<<S10>>)), D1("offset", List(<<S0x10>>)),
             D1("offset", List(<<Num(1)>>))}
            \cup {D1("frames", List(<<f>>)) : f \in Frames}}
    \cup {<<"threads", List(<<D1("frames", List(<<f>>))>>)>> : f \in
            {D1("missing_symbols", Bool(TRUE)), D1("missing_symbols", Bool(FALSE)),
             D1("line", S10), D1("line", Null)}}
    \cup {<<"threads", EmptyList>>}
    \cup {<<"modules", List(q)>> : q \in SeqsUpTo(Modules, MaxLen)}
    \cup {<<"unloaded_modules", List(<<m>>)>> : m \in
            {D1("filename", Sa), D1("filename", Null),
             D2("filename", Sa, "cert_subject", Null)}}

\* the documents with two keys
Doubles == {
    D2("offset", Szz, "lsb_release", S10),
    D2("offset", S10, "lsb_release", S0x10),
    D2("offset", Szz, "crash_info", D1("address", S10)),
    D2("offset", S10, "crash_info", D1("address", S0x10)),
    Dict(<<"crash_info", DOT, "address">> :> S10
         @@ <<"crash_info">> :> D1("address", S10)),
    Dict(<<"crash_info", DOT, "address">> :> S0x10
         @@ <<"crash_info">> :> D1("address", S0x10)) }

Documents == {EmptyDict} \cup {D1(s[1], s[2]) : s \in Sections} \cup Doubles

\* what json.load returns: a document, or a processed crash that holds it
Files == Documents \cup {D1("json_dump", d) : d \in {EmptyDict} \cup Doubles}

----------------------------------------------------------------------------
(* main *)

\* one call of main: the lines and the calls of one of its outcomes are added,
\* an exception ends the program
Run(ns, rec, outcomes, next) ==
    \E o \in outcomes :
        /\ namespace' = ns
        /\ recurse' = rec
        /\ out' = out \o o.out
        /\ calls' = calls \o o.calls
        /\ err' = o.exc
        /\ pc' = IF o.exc = "" THEN next ELSE "raised"
        /\ UNCHANGED <<file1, file2>>

\* diff_dicts(name, left.get(name, {}), right.get(name, {}), recurse)
DiffSection(name, rec, next) ==
    /\ pc = name
    /\ Run(<<name>>, rec,
           diff_dicts(<<name>>, Get(left, <<name>>, EmptyDict),
                      Get(right, <<name>>, EmptyDict), rec), next)
    /\ UNCHANGED <<left, right>>

\* nothing is loaded yet
Unset == Null

Init ==
    /\ pc = "get_data"
    /\ file1 \in Files
    /\ file2 \in Files
    /\ left = Unset
    /\ right = Unset
    /\ namespace = <<>>
    /\ recurse = FALSE
    /\ out = <<>>
    /\ calls = <<>>
    /\ err = ""

GetData ==
    /\ pc = "get_data"
    /\ left' = get_data(file1)
    /\ right' = get_data(file2)
    /\ pc' = "root"
    /\ UNCHANGED <<file1, file2, namespace, recurse, out, calls, err>>

DiffRoot ==
    /\ pc = "root"
    /\ Run(<<>>, FALSE, diff_dicts(<<>>, left, right, FALSE), "crash_info")
    /\ UNCHANGED <<left, right>>

DiffCrashInfo == DiffSection("crash_info", FALSE, "system_info")

DiffSystemInfo == DiffSection("system_info", FALSE, "sensitive")

DiffSensitive == DiffSection("sensitive", FALSE, "crashing_thread")

DiffCrashingThread == DiffSection("crashing_thread", TRUE, "threads")

DiffThreads ==
    /\ pc = "threads"
    /\ Run(<<"threads">>, TRUE,
           diff_lists(<<"threads">>, Get(left, <<"threads">>, EmptyDict),
                      Get(right, <<"threads">>, EmptyDict), TRUE), "modules")
    /\ UNCHANGED <<left, right>>

\* the two sorts, then diff_lists(name, left_modules, right_modules, recurse=True)
SortedThenDiff(name, next, ls, rs) ==
           IF ls.exc # ""
           THEN /\ Run(<<name>>, TRUE, {Fail(ls.exc)}, next)
                /\ UNCHANGED <<left, right>>
           ELSE IF rs.exc # ""
           THEN /\ Run(<<name>>, TRUE, {Fail(rs.exc)}, next)
                /\ left' = Stored(left, <<name>>, ls.val)
                /\ UNCHANGED right
           ELSE /\ Run(<<name>>, TRUE,
                       diff_lists(<<name>>, ls.val, rs.val, TRUE), next)
                /\ left' = Stored(left, <<name>>, ls.val)
                /\ right' = Stored(right, <<name>>, rs.val)

DiffSorted(name, next) ==
    /\ pc = name
    /\ SortedThenDiff(name, next, Sort(Get(left, <<name>>, EmptyList)),
                      Sort(Get(right, <<name>>, EmptyList)))

DiffModules == DiffSorted("modules", "unloaded_modules")

DiffUnloadedModules == DiffSorted("unloaded_modules", "done")

Next ==
    \/ GetData
    \/ DiffRoot
    \/ DiffCrashInfo
    \/ DiffSystemInfo
    \/ DiffSensitive
    \/ DiffCrashingThread
    \/ DiffThreads
    \/ DiffModules
    \/ DiffUnloadedModules

Spec == Init /\ [][Next]_vars

----------------------------------------------------------------------------
(* One call of diff_dicts or diff_lists, on arguments of the caller's choice *)

CallKeys == {"lsb_release", "module_offset", "offset", "loaded_symbols",
             "missing_symbols", "address"}

CallValues == {Null, Bool(FALSE), Bool(TRUE), Num(1), S10, S0x10, Szz,
               D1("address", S10), D1("address", S0x10),
               EmptyList, List(<<S10>>), List(<<S0x10>>)}

DictArgs ==
    {EmptyDict, Null}
    \cup {D1(k, v) : k \in CallKeys, v \in CallValues}
    \cup {D2("offset", S10, "lsb_release", Null), D2("offset", Szz, "address", S10)}

DictNamespaces == {
    <<>>,
    <<"crashing_thread">>,
    <<"modules", DOT, "3">>,
    <<"crashing_thread", DOT, "frames", DOT, "1", "2">> }

Elements == {Null, S10, S0x10, D1("address", S10), List(<<S0x10>>)}

ListArgs ==
    {List(q) : q \in SeqsUpTo(Elements, MaxLen)}
    \cup {Null, S10, D1("address", S10)}

ListNamespaces == {<<"threads">>, Path(<<"x", "offset">>)}

CallInit ==
    /\ file1 = Unset
    /\ file2 = Unset
    /\ \/ /\ pc = "diff_dicts"
          /\ namespace \in DictNamespaces
          /\ left \in DictArgs
          /\ right \in DictArgs
       \/ /\ pc = "diff_lists"
          /\ namespace \in ListNamespaces
          /\ left \in ListArgs
          /\ right \in ListArgs
    /\ recurse \in BOOLEAN
    /\ out = <<>>
    /\ calls = <<>>
    /\ err = ""

CallDiffDicts ==
    /\ pc = "diff_dicts"
    /\ Run(namespace, recurse, diff_dicts(namespace, left, right, recurse), "returned")
    /\ UNCHANGED <<left, right>>

CallDiffLists ==
    /\ pc = "diff_lists"
    /\ Run(namespace, recurse, diff_lists(namespace, left, right, recurse), "returned")
    /\ UNCHANGED <<left, right>>

CallNext == CallDiffDicts \/ CallDiffLists

SpecCall == CallInit /\ [][CallNext]_vars

----------------------------------------------------------------------------
(* What the properties below speak of *)

\* the positions in out of the lines printed for a path
LinesFor(path) == {i \in DOMAIN out : out[i].key = path}

\* the one call of SpecCall is over
CallOver == pc \in {"returned", "raised"}

\* the two documents of the run, as get_data returns them
Doc1 == get_data(file1)
Doc2 == get_data(file2)

\* the path of a key or of a position below a path; the root has no name
Below(path, seg) == IF path = <<>> THEN seg ELSE Dotted(path, seg)

\* the places where both values hold a scalar, found by walking the two
\* values together through mappings (by key) and sequences (by position):
\* the path, the key (<<>> for a position of a sequence) and the two scalars
RECURSIVE CommonLeaves(_, _, _, _)
CommonLeaves(l, r, path, key) ==
    IF IsDict(l) /\ IsDict(r)
    THEN UNION {CommonLeaves(l.d[k], r.d[k], Below(path, k), k) :
                    k \in DOMAIN l.d \cap DOMAIN r.d}
    ELSE IF IsList(l) /\ IsList(r)
    THEN UNION {CommonLeaves(l.l[i], r.l[i], Below(path, ToDigits(i - 1)), <<>>) :
                    i \in DOMAIN l.l \cap DOMAIN r.l}
    ELSE IF IsScalar(l) /\ IsScalar(r)
    THEN {[path |-> path, key |-> key, l |-> l, r |-> r]}
    ELSE {}

InSomeTable(path) == Normalize(path) \in IGNORE_KEYS \cup NULL_OK \cup FALSE_OK

\* no key of the value holds the character "."
RECURSIVE NoDots(_)
NoDots(v) ==
    IF IsDict(v)
    THEN \A k \in DOMAIN v.d : (\A i \in DOMAIN k : k[i] # DOT) /\ NoDots(v.d[k])
    ELSE IF IsList(v) THEN \A i \in DOMAIN v.l : NoDots(v.l[i])
    ELSE TRUE

----------------------------------------------------------------------------
(* C1 *)

\* C1: in every state of a Driver run, no printed line has a path whose
\* digit-normalized form is in the ignore table, whatever the two documents
\* hold there.
C1_IgnoredNeverEmitted ==
    \A i \in DOMAIN out : Normalize(out[i].key) \notin IGNORE_KEYS

\* a finished run over two documents that hold different values at
\* crashing_thread.frames.0.missing_symbols, and a value on one side only at
\* the same place of the other run
C1_Witness ==
    /\ pc = "done"
    /\ Doc1 = D1("crashing_thread", D1("frames", List(<<D1("missing_symbols", Bool(TRUE))>>)))
    /\ Doc2 \in {D1("crashing_thread", D1("frames", List(<<D1("missing_symbols", Bool(FALSE))>>))),
                 D1("crashing_thread", D1("frames", List(<<D1("line", S10)>>)))}
    /\ \E i \in DOMAIN calls :
          calls[i].ns = <<"crashing_thread", DOT, "frames", DOT, "0">>

----------------------------------------------------------------------------
(* C2 *)

\* a finished call of diff_dicts on two mappings
DictCallOver ==
    CallOver /\ calls[1].fn = "diff_dicts" /\ IsDict(left) /\ IsDict(right)

\* a finished call of diff_lists on two sequences
ListCallOver ==
    CallOver /\ calls[1].fn = "diff_lists" /\ IsList(left) /\ IsList(right)

\* C2: after diff_dicts, for every key with a null-ok path and null on the
\* left: no line for the path when the key is absent on the right or null
\* there, a line for the path when the right value is anything else.
C2_NullOkPolicy ==
    DictCallOver =>
        \A k \in DOMAIN left.d :
            (is_null_ok(namespace, k) /\ IsNone(left.d[k])) =>
                IF ~HasKey(right, k) \/ IsNone(right.d[k])
                THEN LinesFor(NKey(namespace, k)) = {}
                ELSE LinesFor(NKey(namespace, k)) # {}

----------------------------------------------------------------------------
(* C3 *)

ExactlyOne(path, indicator) ==
    /\ Cardinality(LinesFor(path)) = 1
    /\ \A i \in LinesFor(path) : out[i].ind = indicator

\* C3: after diff_dicts, every key on one side only that is not ignorable
\* has exactly one "<" line when it is on the right, and when it is on the
\* left exactly one ">" line, or no line when its value is null and its path
\* null-ok or its value is false and its path false-ok.
C3_OneSidedKeys ==
    DictCallOver =>
        \A k \in DOMAIN left.d \cup DOMAIN right.d :
            ~is_ignore_key(namespace, k) =>
                /\ ~HasKey(left, k) => ExactlyOne(NKey(namespace, k), "<")
                /\ ~HasKey(right, k) =>
                     IF \/ IsNone(left.d[k]) /\ is_null_ok(namespace, k)
                        \/ IsFalse(left.d[k]) /\ is_false_ok(namespace, k)
                     THEN LinesFor(NKey(namespace, k)) = {}
                     ELSE ExactlyOne(NKey(namespace, k), ">")

----------------------------------------------------------------------------
(* C4 *)

\* C4: after diff_dicts, for every key of the Comparator Table on both sides
\* with two scalars, neither null and at least one of them no base-16
\* literal, no exception has ended the call and a "|" line is printed for
\* the key.
C4_HexNeverRaises ==
    DictCallOver =>
        \A k \in (DOMAIN left.d \cap DOMAIN right.d) \cap KEY_COMPARE :
            (/\ IsScalar(left.d[k]) /\ ~IsNone(left.d[k])
             /\ IsScalar(right.d[k]) /\ ~IsNone(right.d[k])
             /\ ~is_ignore_key(namespace, k)
             /\ IntBase16(left.d[k]).exc # "" \/ IntBase16(right.d[k]).exc # "")
            => /\ err = ""
               /\ \E i \in LinesFor(NKey(namespace, k)) : out[i].ind = "|"

----------------------------------------------------------------------------
(* C5 *)

\* C5: a Driver run over two equal documents prints no line.
C5_Idempotence == Doc1 = Doc2 => out = <<>>

----------------------------------------------------------------------------
(* C7 *)

ModulesOf(doc) == Get(doc, <<"modules">>, EmptyList).l

\* b holds the elements of a in another order
Reordered(a, b) ==
    /\ a # b
    /\ \E o \in Orders(DOMAIN a) :
          b = [i \in DOMAIN a |-> a[o[i]]]

UnderModules(path) == Len(path) > 2 /\ path[1] = "modules" /\ path[2] = DOT

\* C7: a Driver run over two module lists that hold the same mappings in
\* different orders prints no line under modules; and over the lists
\* [{filename: b}] and [{filename: a}, {filename: b}] it prints no line for a
\* field of a module (the two b entries are compared with each other).
C7_SortAligns ==
    /\ Reordered(ModulesOf(Doc1), ModulesOf(Doc2)) =>
          \A i \in DOMAIN out : ~UnderModules(out[i].key)
    /\ (/\ ModulesOf(Doc1) = <<D1("filename", Sb)>>
        /\ ModulesOf(Doc2) = <<D1("filename", Sa), D1("filename", Sb)>>) =>
          \A i \in DOMAIN out :
              ~(UnderModules(out[i].key) /\ Len(Normalize(out[i].key)) > 3)

----------------------------------------------------------------------------
(* C8 *)

Longest(a, b) == IF Len(a) > Len(b) THEN Len(a) ELSE Len(b)

\* C8: after diff_lists on two sequences, every position that only the
\* longer sequence has gets exactly one line, ">" when the left sequence is
\* the longer and "<" when the right is, whatever the element is.
C8_OneSidedPositions ==
    ListCallOver =>
        \A i \in 1..Longest(left.l, right.l) :
            /\ i > Len(right.l) => ExactlyOne(IKey(namespace, i - 1), ">")
            /\ i > Len(left.l) => ExactlyOne(IKey(namespace, i - 1), "<")

----------------------------------------------------------------------------
(* C9 *)

\* C9: after diff_lists has returned, for every position that holds a scalar
\* other than null on both sides, a line is printed for the position exactly
\* when the comparator of the Comparator Table for the last segment of the
\* namespace finds the two elements unequal.
C9_ListComparator ==
    (ListCallOver /\ pc = "returned") =>
        \A i \in DOMAIN left.l \cap DOMAIN right.l :
            (/\ IsScalar(left.l[i]) /\ ~IsNone(left.l[i])
             /\ IsScalar(right.l[i]) /\ ~IsNone(right.l[i])
             /\ Comparator(LastSegment(namespace), left.l[i], right.l[i]).exc = "")
            => (LinesFor(IKey(namespace, i - 1)) = {}
                  <=> Comparator(LastSegment(namespace), left.l[i], right.l[i]).val)

----------------------------------------------------------------------------
(* C10 *)

\* the paths one segment below the namespace of the call
OneBelow ==
    IF calls[1].fn = "diff_dicts"
    THEN {NKey(namespace, k) :
            k \in (IF IsDict(left) THEN DOMAIN left.d ELSE {})
                  \cup (IF IsDict(right) THEN DOMAIN right.d ELSE {})}
    ELSE {IKey(namespace, i) : i \in 0..MaxLen}

\* the paths of the keys and positions that both sides hold, with a mapping
\* or a sequence on either side
BothWithContainer ==
    IF DictCallOver
    THEN {NKey(namespace, k) : k \in
            {k \in DOMAIN left.d \cap DOMAIN right.d :
                ~IsScalar(left.d[k]) \/ ~IsScalar(right.d[k])}}
    ELSE IF ListCallOver
    THEN {IKey(namespace, i - 1) : i \in
            {i \in DOMAIN left.l \cap DOMAIN right.l :
                ~IsScalar(left.l[i]) \/ ~IsScalar(right.l[i])}}
    ELSE {}

\* C10: a call with recurse=False prints lines only for paths one segment
\* below its namespace, prints nothing for a key or position that both sides
\* hold with a mapping or a sequence on either side, and makes no nested
\* call; every call nested in a call with recurse=True has recurse=True.
C10_RecursionToggle ==
    CallOver =>
        /\ ~recurse =>
              /\ \A i \in DOMAIN out : out[i].key \in OneBelow
              /\ \A path \in BothWithContainer : LinesFor(path) = {}
              /\ Len(calls) = 1
        /\ recurse => \A i \in DOMAIN calls : calls[i].recurse

----------------------------------------------------------------------------
(* C6 *)

\* the places that hold a scalar on both sides with different values, at a
\* path that is in none of the three tables
Differing(S) == {e \in S : e.l # e.r /\ ~InSomeTable(e.path)}

Shallow(l, r, path) ==
    IF IsDict(l) /\ IsDict(r)
    THEN {[path |-> Below(path, k), key |-> k, l |-> l.d[k], r |-> r.d[k],
           pos |-> FALSE] :
              k \in {k \in DOMAIN l.d \cap DOMAIN r.d :
                        IsScalar(l.d[k]) /\ IsScalar(r.d[k])}}
    ELSE {}

\* the scalar pairs that a call with recurse=True compares: those of the
\* common leaves that are below no ignorable key; for a position of a
\* sequence, key is the last segment of the path of the sequence
RECURSIVE Deep(_, _, _, _, _)
Deep(l, r, path, key, pos) ==
    IF IsDict(l) /\ IsDict(r)
    THEN UNION {Deep(l.d[k], r.d[k], Below(path, k), k, FALSE) :
                    k \in {k \in DOMAIN l.d \cap DOMAIN r.d :
                              ~is_ignore_key(path, k)}}
    ELSE IF IsList(l) /\ IsList(r)
    THEN UNION {Deep(l.l[i], r.l[i], Below(path, ToDigits(i - 1)),
                     LastSegment(path), TRUE) :
                    i \in DOMAIN l.l \cap DOMAIN r.l}
    ELSE IF IsScalar(l) /\ IsScalar(r)
    THEN {[path |-> path, key |-> key, l |-> l, r |-> r, pos |-> pos]}
    ELSE {}

Sub(doc, name, default) == Get(doc, <<name>>, default)

\* the scalar pairs that the calls of a Driver run compare
Reached ==
    Shallow(left, right, <<>>)
    \cup UNION {Shallow(Sub(left, s, EmptyDict), Sub(right, s, EmptyDict), <<s>>) :
                    s \in {"crash_info", "system_info", "sensitive"}}
    \cup UNION {Deep(Sub(left, s, EmptyDict), Sub(right, s, EmptyDict), <<s>>,
                     <<>>, FALSE) : s \in {"crashing_thread", "threads"}}
    \cup UNION {Deep(Sub(left, s, EmptyList), Sub(right, s, EmptyList), <<s>>,
                     <<>>, FALSE) : s \in {"modules", "unloaded_modules"}}

\* the two values are unequal for the comparator of the key; for a position
\* of a sequence they are unequal for plain equality as well
Unequal(e) ==
    /\ Comparator(e.key, e.l, e.r) = Returns(FALSE)
    /\ e.pos => ~PyEq(e.l, e.r)

====
